---- MODULE Spec2Model ----
(***************************************************************************)
(* A model of wordle.py: the hint function, the partition of a candidate   *)
(* tuple by hint, and the memoised recursive search of class Run           *)
(* (best_guess / expected_guesses_after), run as an explicit call stack.   *)
(*                                                                         *)
(* Words are sequences of letters; a hint is a sequence of hint pieces; a  *)
(* Fraction is a record [num, den] kept in lowest terms with den > 0, as   *)
(* fractions.Fraction keeps it.  Logging (Run.log, the stack= argument and *)
(* _knowledge_states_visited, which only feeds the log line) is left out.  *)
(***************************************************************************)
EXTENDS Integers, Sequences, FiniteSets, TLC

VARIABLES
    pc,             \* position of the interpreter in the search
    arg,            \* possibilities of the best_guess call being entered or returning
    ret,            \* the GuessWithExpectation a best_guess call has just returned
    stack,          \* the active best_guess activations, outermost first
    memo,           \* Run._knowledge_states_seen
    top,            \* the argument of the current top-level best_guess call
    ncalls,         \* top-level best_guess calls made on this Run so far
    actual,         \* hint(actual, guess): its inputs and its result
    guess,
    out,
    possibilities,  \* possibilities_by_hint(possibilities, pguess) and its result
    pguess,
    by_hint

vars == <<pc, arg, ret, stack, memo, top, ncalls,
          actual, guess, out, possibilities, pguess, by_hint>>

searchVars == <<pc, arg, ret, stack, memo, top, ncalls>>
hintVars == <<actual, guess, out>>
partVars == <<possibilities, pguess, by_hint>>

(***************************************************************************)
(* Bounds of the model.                                                    *)
(***************************************************************************)
\* letters used by the words the hint function is applied to
AlphabetSize == 3
\* longest word the hint function is applied to
MaxHintLen == 4
\* longest candidate sequence that is partitioned
MaxPartLen == 3
\* top-level best_guess calls made on one Run
MaxCalls == 3
\* longest tuple of candidates passed to best_guess
MaxCand == 4
\* nested best_guess activations the interpreter allows before RecursionError
RecursionLimit == 6

\* the letters, in alphabetical order
LetterList == <<"a", "b", "c", "d", "e">>

(***************************************************************************)
(* Hint pieces.                                                            *)
(***************************************************************************)
GREEN == "GREEN"
YELLOW == "YELLOW"
GRAY == "GRAY"

ALL_GREEN4 == <<GREEN, GREEN, GREEN, GREEN>>

ALL_GREEN == <<GREEN, GREEN, GREEN, GREEN, GREEN>>

(***************************************************************************)
(* Small helpers on sequences.                                             *)
(***************************************************************************)
Range(s) == {s[i] : i \in 1..Len(s)}

\* collections.Counter(word)[c]: the occurrences of c, 0 for a missing key
Count(word, c) == Cardinality({i \in 1..Len(word) : word[i] = c})

(***************************************************************************)
(* hint(actual, guess), computed as the code computes it: a Counter of the *)
(* letters of actual, a first pass that takes the exact matches out of it, *)
(* a second pass left to right that spends what is left on YELLOWs.        *)
(***************************************************************************)
\* the Counter after the first loop (lines 92-95)
floating_letter_counts(actual_, guess_) ==
    [c \in Range(actual_) \cup Range(guess_) |->
        Count(actual_, c)
        - Cardinality({i \in 1..Len(actual_) : actual_[i] = guess_[i] /\ actual_[i] = c})]

\* the second loop (lines 97-105) from position i on, with the Counter as it stands
RECURSIVE HintLoop(_, _, _, _, _)
HintLoop(actual_, guess_, i, counts, out_) ==
    IF i > Len(actual_) THEN out_
    ELSE IF actual_[i] = guess_[i]
         THEN HintLoop(actual_, guess_, i + 1, counts, Append(out_, GREEN))
    ELSE IF counts[guess_[i]] > 0
         THEN HintLoop(actual_, guess_, i + 1,
                       [counts EXCEPT ![guess_[i]] = @ - 1], Append(out_, YELLOW))
    ELSE HintLoop(actual_, guess_, i + 1, counts, Append(out_, GRAY))

\* a hint that skips the first loop: YELLOWs are spent before the exact matches
hint_single_pass(actual_, guess_) ==
    HintLoop(actual_, guess_, 1,
             [c \in Range(actual_) \cup Range(guess_) |-> Count(actual_, c)], <<>>)

\* a hint that marks GREEN every guessed letter that occurs anywhere in actual
hint_membership(actual_, guess_) ==
    [i \in 1..Len(actual_) |->
        IF guess_[i] \in Range(actual_) THEN GREEN ELSE GRAY]

hint(actual_, guess_) ==
    HintLoop(actual_, guess_, 1, floating_letter_counts(actual_, guess_), <<>>)

(***************************************************************************)
(* possibilities_by_hint(possibilities, guess): a defaultdict(list), kept  *)
(* as the sequence of its items <<hint, bucket>> in insertion order.       *)
(***************************************************************************)
\* the index of key h among the items, 0 when the key is missing
KeyIndex(items, h) ==
    IF \E i \in 1..Len(items) : items[i][1] = h
    THEN CHOOSE i \in 1..Len(items) : items[i][1] = h
    ELSE 0

\* possibilities_by_hint[h] = [word]: the bucket is overwritten, not appended to
OverwriteBucket(items, h, word) ==
    IF KeyIndex(items, h) = 0
    THEN Append(items, <<h, <<word>>>>)
    ELSE [items EXCEPT ![KeyIndex(items, h)] = <<h, <<word>>>>]

\* possibilities_by_hint[h].append(word)  (line 169)
AppendToBucket(items, h, word) ==
    IF KeyIndex(items, h) = 0
    THEN Append(items, <<h, <<word>>>>)
    ELSE [items EXCEPT ![KeyIndex(items, h)] = <<h, Append(@[2], word)>>]

RECURSIVE PartitionLoop(_, _, _, _)
PartitionLoop(possibilities_, guess_, i, items) ==
    IF i > Len(possibilities_) THEN items
    ELSE PartitionLoop(possibilities_, guess_, i + 1,
                       AppendToBucket(items, hint(possibilities_[i], guess_),
                                      possibilities_[i]))

possibilities_by_hint(possibilities_, guess_) ==
    PartitionLoop(possibilities_, guess_, 1, <<>>)

(***************************************************************************)
(* fractions.Fraction: exact rationals in lowest terms, den > 0.           *)
(***************************************************************************)
RECURSIVE Gcd(_, _)
Gcd(a, b) == IF b = 0 THEN a ELSE Gcd(b, a % b)

Abs(n) == IF n < 0 THEN -n ELSE n

\* Fraction(n, d) for integers n and d > 0
Fraction(n, d) ==
    LET g == Gcd(Abs(n), d)
    IN  [num |-> n \div g, den |-> d \div g]

Zero == Fraction(0, 1)

FracAdd(a, b) == Fraction(a.num * b.den + b.num * a.den, a.den * b.den)
FracAddInt(a, n) == Fraction(a.num + n * a.den, a.den)
FracMulInt(a, n) == Fraction(a.num * n, a.den)
\* Fraction(a, n) for a Fraction a and an integer n > 0
FracDivInt(a, n) == Fraction(a.num, a.den * n)
FracLess(a, b) == a.num * b.den < b.num * a.den

(***************************************************************************)
(* collections.Counter keyed by Fractions (remaining_guesses_distribution) *)
(***************************************************************************)
EmptyCounter == [k \in {} |-> 0]

\* counter[k] += v
CounterAdd(counter, k, v) ==
    IF k \in DOMAIN counter
    THEN [counter EXCEPT ![k] = @ + v]
    ELSE counter @@ (k :> v)

\* sum(k * v for k, v in counter.items())
RECURSIVE WeightedSum(_)
WeightedSum(counter) ==
    IF DOMAIN counter = {} THEN Zero
    ELSE LET k == CHOOSE x \in DOMAIN counter : TRUE
             rest == [x \in DOMAIN counter \ {k} |-> counter[x]]
         IN  FracAdd(FracMulInt(k, counter[k]), WeightedSum(rest))

\* sum(counter.values())
RECURSIVE TotalWeight(_)
TotalWeight(counter) ==
    IF DOMAIN counter = {} THEN 0
    ELSE LET k == CHOOSE x \in DOMAIN counter : TRUE
             rest == [x \in DOMAIN counter \ {k} |-> counter[x]]
         IN  counter[k] + TotalWeight(rest)

(***************************************************************************)
(* The pieces of Run.best_guess and Run.expected_guesses_after.            *)
(***************************************************************************)
GuessWithExpectation(guess_, expected_after_) ==
    [guess |-> guess_, expected_after |-> expected_after_]

\* the first of the values: no minimum is taken
FirstValue(values) == values[1]

\* min(values, key=lambda g: g.expected_after): the first value that no other undercuts
MinByExpected(values) ==
    LET isMin(i) == \A j \in 1..Len(values) :
                        ~FracLess(values[j].expected_after, values[i].expected_after)
    IN  values[CHOOSE i \in 1..Len(values) :
                   isMin(i) /\ \A j \in 1..(i - 1) : ~isMin(j)]

\* remaining_guesses_distribution[0] += 1  (line 156)
AfterAllGreen(dist) == CounterAdd(dist, Zero, 1)

\* the recursed bucket counted once, whatever its size
AfterRecursionUnweighted(dist, g, sub_possibilities) ==
    CounterAdd(dist, FracAddInt(g.expected_after, 1), 1)

\* remaining_guesses_distribution[g.expected_after + 1] += len(sub_possibilities)
AfterRecursion(dist, g, sub_possibilities) ==
    CounterAdd(dist, FracAddInt(g.expected_after, 1), Len(sub_possibilities))

\* Fraction(sum(k * v ...), sum(values()))  (lines 161-164)
Aggregate(dist) == FracDivInt(WeightedSum(dist), TotalWeight(dist))

(***************************************************************************)
(* The words the search is run on: a dictionary of 5-letter words, and the *)
(* two 4-letter words of the doctests of hint.                             *)
(***************************************************************************)
aaaaa == <<"a", "a", "a", "a", "a">>
bbbbb == <<"b", "b", "b", "b", "b">>
bbbbc == <<"b", "b", "b", "b", "c">>
cbbbb == <<"c", "b", "b", "b", "b">>
ccccc == <<"c", "c", "c", "c", "c">>
abcd == <<"a", "b", "c", "d">>
dcba == <<"d", "c", "b", "a">>

\* the 5-letter words one search is started on
Words5 == {aaaaa, bbbbb, bbbbc, cbbbb, ccccc}
\* the 5-letter words a Run that is called several times is called on
RunWords == {aaaaa, bbbbb, bbbbc}
Words4 == {abcd, dcba}

\* the tuples of n distinct words of S
RECURSIVE DistinctTuples(_, _)
DistinctTuples(S, n) ==
    IF n = 0 THEN {<<>>}
    ELSE UNION { {Append(t, w) : w \in S \ Range(t)} : t \in DistinctTuples(S, n - 1) }

\* what the user of a Run passes to its calls of best_guess: a non-empty tuple of
\* distinct words of one length, in any order
Candidates ==
    UNION { DistinctTuples(RunWords, n) \cup DistinctTuples(Words4, n) :
            n \in 1..Cardinality(RunWords) }

\* what one search on a fresh Run is started on
SearchCandidates ==
    UNION { DistinctTuples(Words5, n) \cup DistinctTuples(Words4, n) : n \in 1..MaxCand }

(***************************************************************************)
(* The state of a Run and of the interpreter running a search on it.       *)
(***************************************************************************)
NoResult == GuessWithExpectation(<<>>, Zero)

EmptyMemo == [k \in {} |-> NoResult]

\* a best_guess activation, with the expected_guesses_after call it is in:
\*   possibilities  the argument
\*   i              the index of the guess being scored (enumerate, from 1)
\*   values         the list of line 129
\*   items          the items of possibilities_by_hint still to visit
\*   dist           remaining_guesses_distribution
Frame(possibilities_) ==
    [possibilities |-> possibilities_, i |-> 1, values |-> <<>>,
     items |-> <<>>, dist |-> EmptyCounter]

Top == stack[Len(stack)]
SetTop(f) == [stack EXCEPT ![Len(stack)] = f]
Pop == SubSeq(stack, 1, Len(stack) - 1)

\* a key that forgets the order of the candidates
RECURSIVE SortedKey(_)
WordLess(v, w) ==
    \E i \in 1..Len(v) :
        /\ \A j \in 1..(i - 1) : v[j] = w[j]
        /\ \E k \in 1..Len(LetterList) : \E l \in (k + 1)..Len(LetterList) :
               v[i] = LetterList[k] /\ w[i] = LetterList[l]
SortedKey(possibilities_) ==
    IF possibilities_ = <<>> THEN <<>>
    ELSE LET least == CHOOSE w \in Range(possibilities_) :
                          \A v \in Range(possibilities_) : ~WordLess(v, w)
             rest == SelectSeq(possibilities_, LAMBDA w : w # least)
         IN  <<least>> \o SortedKey(rest)

\* the key of _knowledge_states_seen: the tuple itself, in the order given
MemoKey(possibilities_) == possibilities_

\* a store that is never found to hold anything
NeverSeen(possibilities_) == FALSE

\* possibilities in self._knowledge_states_seen  (line 128)
Seen(possibilities_) == MemoKey(possibilities_) \in DOMAIN memo

(***************************************************************************)
(* The search, one step of the interpreter per action.                     *)
(***************************************************************************)
UnchangedPure == UNCHANGED <<hintVars, partVars>>

\* run.best_guess(p) called on the Run by its user (line 224)
Invoke(p) ==
    /\ pc = "idle"
    /\ pc' = "best_guess"
    /\ arg' = p
    /\ top' = p
    /\ ncalls' = ncalls + 1
    /\ UNCHANGED <<ret, stack, memo>>
    /\ UnchangedPure

\* the interpreter refuses the call: the activations have reached its limit
RaiseRecursionError ==
    /\ pc = "best_guess"
    /\ Len(stack) >= RecursionLimit
    /\ pc' = "RecursionError"
    /\ UNCHANGED <<arg, ret, stack, memo, top, ncalls>>
    /\ UnchangedPure

\* best_guess, possibilities already in the store: line 144 alone
BestGuessHit ==
    /\ pc = "best_guess"
    /\ Len(stack) < RecursionLimit
    /\ Seen(arg)
    /\ ret' = memo[MemoKey(arg)]
    /\ pc' = "return"
    /\ UNCHANGED <<arg, stack, memo, top, ncalls>>
    /\ UnchangedPure

\* best_guess, possibilities not in the store: the loop of line 130 starts
BestGuessMiss ==
    /\ pc = "best_guess"
    /\ Len(stack) < RecursionLimit
    /\ ~Seen(arg)
    /\ stack' = Append(stack, Frame(arg))
    /\ pc' = "guess"
    /\ UNCHANGED <<arg, ret, memo, top, ncalls>>
    /\ UnchangedPure

\* expected_guesses_after(possibilities, guess) entered for the i-th guess
ExpectedGuessesAfterEnter ==
    /\ pc = "guess"
    /\ Top.i <= Len(Top.possibilities)
    /\ stack' = SetTop([Top EXCEPT
                   !.items = possibilities_by_hint(Top.possibilities,
                                                   Top.possibilities[Top.i]),
                   !.dist = EmptyCounter])
    /\ pc' = "bucket"
    /\ UNCHANGED <<arg, ret, memo, top, ncalls>>
    /\ UnchangedPure

\* the next item is the ALL_GREEN bucket (lines 152-156); a failed assert ends the search
VisitAllGreen ==
    /\ pc = "bucket"
    /\ Top.items # <<>>
    /\ Top.items[1][1] = ALL_GREEN
    /\ IF Len(Top.items[1][2]) = 1
       THEN /\ stack' = SetTop([Top EXCEPT !.dist = AfterAllGreen(@),
                                           !.items = Tail(@)])
            /\ pc' = "bucket"
       ELSE /\ pc' = "AssertionError"
            /\ UNCHANGED stack
    /\ UNCHANGED <<arg, ret, memo, top, ncalls>>
    /\ UnchangedPure

\* the next item is any other bucket (lines 152, 158): best_guess is called on it
VisitBucket ==
    /\ pc = "bucket"
    /\ Top.items # <<>>
    /\ Top.items[1][1] # ALL_GREEN
    /\ IF Len(Top.items[1][2]) > 0
       THEN /\ arg' = Top.items[1][2]
            /\ pc' = "best_guess"
       ELSE /\ pc' = "AssertionError"
            /\ UNCHANGED arg
    /\ UNCHANGED <<ret, stack, memo, top, ncalls>>
    /\ UnchangedPure

\* the recursive best_guess has returned g: line 159
ResumeBucket ==
    /\ pc = "return"
    /\ stack # <<>>
    /\ stack' = SetTop([Top EXCEPT
                   !.dist = AfterRecursion(@, ret, Top.items[1][2]),
                   !.items = Tail(@)])
    /\ pc' = "bucket"
    /\ UNCHANGED <<arg, ret, memo, top, ncalls>>
    /\ UnchangedPure

\* every item visited: expected_guesses_after returns and line 131 appends the value
ExpectedGuessesAfterReturn ==
    /\ pc = "bucket"
    /\ Top.items = <<>>
    /\ stack' = SetTop([Top EXCEPT
                   !.values = Append(@, GuessWithExpectation(
                                            Top.possibilities[Top.i],
                                            Aggregate(Top.dist))),
                   !.i = @ + 1,
                   !.dist = EmptyCounter])
    /\ pc' = "guess"
    /\ UNCHANGED <<arg, ret, memo, top, ncalls>>
    /\ UnchangedPure

\* the loop is over: the minimum is stored and returned (lines 138-144)
BestGuessStore ==
    /\ pc = "guess"
    /\ Top.i > Len(Top.possibilities)
    /\ LET key == MemoKey(Top.possibilities)
           best == MinByExpected(Top.values)
       IN  /\ memo' = IF key \in DOMAIN memo
                      THEN [memo EXCEPT ![key] = best]
                      ELSE memo @@ (key :> best)
           /\ ret' = best
    /\ arg' = Top.possibilities
    /\ stack' = Pop
    /\ pc' = "return"
    /\ UNCHANGED <<top, ncalls>>
    /\ UnchangedPure

\* the top-level best_guess returns to the user of the Run
Finish ==
    /\ pc = "return"
    /\ stack = <<>>
    /\ pc' = "idle"
    /\ UNCHANGED <<arg, ret, stack, memo, top, ncalls>>
    /\ UnchangedPure

Init ==
    /\ pc = "idle"
    /\ arg = <<>>
    /\ ret = NoResult
    /\ stack = <<>>
    /\ memo = EmptyMemo
    /\ top = <<>>
    /\ ncalls = 0
    /\ actual = <<>> /\ guess = <<>> /\ out = <<>>
    /\ possibilities = <<>> /\ pguess = <<>> /\ by_hint = <<>>

\* what a search does once best_guess is called
Step ==
    \/ RaiseRecursionError
    \/ BestGuessHit
    \/ BestGuessMiss
    \/ ExpectedGuessesAfterEnter
    \/ VisitAllGreen
    \/ VisitBucket
    \/ ResumeBucket
    \/ ExpectedGuessesAfterReturn
    \/ BestGuessStore
    \/ Finish

\* one Run, called up to MaxCalls times on tuples of RunWords or Words4
Next ==
    \/ \E p \in Candidates : ncalls < MaxCalls /\ Invoke(p)
    \/ Step

Spec == Init /\ [][Next]_vars

\* a fresh Run, called once on a tuple of up to MaxCand words
NextSearch ==
    \/ \E p \in SearchCandidates : ncalls = 0 /\ Invoke(p)
    \/ Step

SpecSearch == Init /\ [][NextSearch]_vars

(***************************************************************************)
(* The pure functions on their own: hint applied to a pair of words, and   *)
(* possibilities_by_hint applied to a sequence of candidates and a guess.  *)
(***************************************************************************)
Alphabet == {LetterList[i] : i \in 1..AlphabetSize}

\* the sequences of length n over S
RECURSIVE AllSeqs(_, _)
AllSeqs(S, n) ==
    IF n = 0 THEN {<<>>}
    ELSE {Append(t, x) : t \in AllSeqs(S, n - 1), x \in S}

IdleRun ==
    /\ pc = "idle" /\ arg = <<>> /\ ret = NoResult /\ stack = <<>>
    /\ memo = EmptyMemo /\ top = <<>> /\ ncalls = 0

InitHint ==
    /\ IdleRun
    /\ \E n \in 1..MaxHintLen :
           /\ actual \in AllSeqs(Alphabet, n)
           /\ guess \in AllSeqs(Alphabet, n)
    /\ out = <<>>
    /\ possibilities = <<>> /\ pguess = <<>> /\ by_hint = <<>>

\* hint(actual, guess) is called
CallHint ==
    /\ out = <<>>
    /\ out' = hint(actual, guess)
    /\ UNCHANGED <<actual, guess, searchVars, partVars>>

SpecHint == InitHint /\ [][CallHint]_vars

InitPartition ==
    /\ IdleRun
    /\ actual = <<>> /\ guess = <<>> /\ out = <<>>
    /\ \E n \in 1..MaxPartLen : possibilities \in AllSeqs(Words5, n)
    /\ pguess \in Words5
    /\ by_hint = <<>>

\* possibilities_by_hint(possibilities, pguess) is called
CallPartition ==
    /\ by_hint = <<>>
    /\ by_hint' = possibilities_by_hint(possibilities, pguess)
    /\ UNCHANGED <<possibilities, pguess, searchVars, hintVars>>

SpecPartition == InitPartition /\ [][CallPartition]_vars

(***************************************************************************)
(* Reference definitions the claims are stated with.                       *)
(***************************************************************************)
AllExact(h) == \A i \in 1..Len(h) : h[i] = GREEN

\* the sum of f over the set S of Fractions-valued points
RECURSIVE SumOver(_, _)
SumOver(S, f) ==
    IF S = {} THEN Zero
    ELSE LET x == CHOOSE y \in S : TRUE
         IN  FracAdd(f[x], SumOver(S \ {x}, f))

\* the expected number of further guesses, defined on the SET of candidates C:
\* the all-exact bucket counts 0 with weight 1, a bucket B of size n counts
\* RefValue(B) + 1 with weight n, and the sum is divided by |C|
RECURSIVE RefValue(_)
RefExpected(C, g) ==
    LET keys == {hint(a, g) : a \in C}
        bucket(h) == {a \in C : hint(a, g) = h}
        part == [h \in keys |->
                    IF AllExact(h) THEN Zero
                    ELSE FracMulInt(FracAddInt(RefValue(bucket(h)), 1),
                                    Cardinality(bucket(h)))]
    IN  FracDivInt(SumOver(keys, part), Cardinality(C))

RefValue(C) ==
    LET vals == {RefExpected(C, g) : g \in C}
    IN  CHOOSE v \in vals : \A u \in vals : ~FracLess(u, v)

\* best_guess evaluated with no store at all: every subproblem is recomputed
RECURSIVE NoMemoBestGuess(_)
RECURSIVE NoMemoVisit(_, _)
NoMemoVisit(items, dist) ==
    IF items = <<>> THEN dist
    ELSE IF items[1][1] = ALL_GREEN
         THEN NoMemoVisit(Tail(items), AfterAllGreen(dist))
         ELSE NoMemoVisit(Tail(items),
                          AfterRecursion(dist, NoMemoBestGuess(items[1][2]), items[1][2]))

NoMemoExpected(possibilities_, guess_) ==
    Aggregate(NoMemoVisit(possibilities_by_hint(possibilities_, guess_), EmptyCounter))

NoMemoBestGuess(possibilities_) ==
    MinByExpected([i \in 1..Len(possibilities_) |->
        GuessWithExpectation(possibilities_[i],
                             NoMemoExpected(possibilities_, possibilities_[i]))])

\* k is t with some of its words left out, the others in the order of t
RECURSIVE IsSubsequence(_, _)
IsSubsequence(k, t) ==
    IF k = <<>> THEN TRUE
    ELSE IF t = <<>> THEN FALSE
    ELSE IF Head(k) = Head(t) THEN IsSubsequence(Tail(k), Tail(t))
    ELSE IsSubsequence(k, Tail(t))

FiveLetters(possibilities_) == possibilities_ # <<>> /\ Len(possibilities_[1]) = 5

\* the value is a Fraction >= 0 whose denominator divides n
DenominatorDivides(v, n) == v.num >= 0 /\ v.den > 0 /\ n % v.den = 0

\* the top-level call is returning
TopLevelReturn == pc = "return" /\ stack = <<>>

(***************************************************************************)
(* C1: for equal-length words, hint(actual, guess) has the length of the   *)
(* words; position i is GREEN exactly when actual[i] = guess[i]; any other *)
(* position is YELLOW exactly when the occurrences of guess[i] in actual,  *)
(* less the GREEN matches of that letter, less the YELLOWs given to        *)
(* earlier positions for that letter, is positive, and GRAY otherwise;     *)
(* hint(w, w) is all GREEN.                                                *)
(***************************************************************************)
C1_HintCharacterised ==
    out # <<>> =>
        /\ Len(out) = Len(guess)
        /\ \A i \in 1..Len(guess) :
               LET c == guess[i]
                   greens == Cardinality({j \in 1..Len(guess) :
                                             guess[j] = c /\ actual[j] = c})
                   earlier == Cardinality({j \in 1..(i - 1) :
                                              guess[j] = c /\ out[j] = YELLOW})
               IN  /\ out[i] \in {GREEN, YELLOW, GRAY}
                   /\ out[i] = GREEN <=> actual[i] = guess[i]
                   /\ out[i] = YELLOW <=>
                          (actual[i] # guess[i] /\ Count(actual, c) - greens - earlier > 0)
        /\ (actual = guess => \A i \in 1..Len(out) : out[i] = GREEN)

\* a letter guessed twice, GRAY at the first place because its only occurrence in
\* actual is the exact match further right
C1_Witness ==
    /\ out # <<>>
    /\ \E i \in 1..Len(guess) : \E j \in (i + 1)..Len(guess) :
           /\ guess[i] = guess[j]
           /\ out[i] = GRAY
           /\ out[j] = GREEN
           /\ Count(actual, guess[i]) = 1

\* the sizes of the buckets, added up
RECURSIVE SumOfSizes(_)
SumOfSizes(items) ==
    IF items = <<>> THEN 0 ELSE Len(items[1][2]) + SumOfSizes(Tail(items))

(***************************************************************************)
(* C2: possibilities_by_hint(C, g) is an exact partition of C: no bucket   *)
(* is empty, the keys are pairwise distinct, every candidate is in the     *)
(* bucket keyed by its hint and in no other, as often as it is in C, and   *)
(* the bucket sizes sum to |C|.                                            *)
(***************************************************************************)
C2_ExactPartition ==
    by_hint # <<>> =>
        /\ \A n \in 1..Len(by_hint) : Len(by_hint[n][2]) > 0
        /\ \A m, n \in 1..Len(by_hint) : by_hint[m][1] = by_hint[n][1] => m = n
        /\ \A n \in 1..Len(by_hint) : \A w \in Range(by_hint[n][2]) :
               by_hint[n][1] = hint(w, pguess)
        /\ \A w \in Range(possibilities) :
               \E n \in 1..Len(by_hint) :
                   /\ by_hint[n][1] = hint(w, pguess)
                   /\ Count(by_hint[n][2], w) = Count(possibilities, w)
        /\ \A n \in 1..Len(by_hint) : Range(by_hint[n][2]) \subseteq Range(possibilities)
        /\ SumOfSizes(by_hint) = Len(possibilities)

\* several buckets, one of them holding two different candidates
C2_Witness ==
    /\ Len(by_hint) >= 2
    /\ \E n \in 1..Len(by_hint) : Cardinality(Range(by_hint[n][2])) >= 2

(***************************************************************************)
(* C3: for distinct equal-length words of any length and g in C,           *)
(* expected_guesses_after(C, g) returns the weighted average in which the  *)
(* all-exact bucket counts 0 with weight 1 and any other bucket of size n  *)
(* counts its best expected value + 1 with weight n, divided by |C|; for   *)
(* C = (abcd, dcba) and g = abcd it returns 1/2.                           *)
(***************************************************************************)
C3_WeightedAverage ==
    /\ pc # "RecursionError"
    /\ \A d \in 1..Len(stack) : \A j \in 1..Len(stack[d].values) :
           stack[d].values[j].expected_after =
               RefExpected(Range(stack[d].possibilities), stack[d].values[j].guess)
    /\ (stack # <<>> /\ stack[1].possibilities = <<abcd, dcba>> /\ stack[1].values # <<>>)
           => stack[1].values[1].expected_after = Fraction(1, 2)

\* the store-free result of every tuple of 5-letter words a Run is called on or
\* recurses on, as pairs <<tuple, result>>
NoMemoResults ==
    { <<k, NoMemoBestGuess(k)>> :
        k \in UNION { DistinctTuples(RunWords, n) : n \in 1..Cardinality(RunWords) } }

(***************************************************************************)
(* C4: memoisation is transparent: whatever calls were made on the Run     *)
(* before, best_guess on a tuple of distinct 5-letter words returns the    *)
(* guess and the expected value that an evaluation with no store gives for *)
(* that tuple, and every entry of the store is the store-free result for   *)
(* its key.                                                                *)
(***************************************************************************)
C4_MemoTransparent ==
    /\ \A k \in DOMAIN memo : FiveLetters(k) => <<k, memo[k]>> \in NoMemoResults
    /\ (pc = "return" /\ FiveLetters(arg)) => <<arg, ret>> \in NoMemoResults

\* a later call returns a set of three words that an earlier call solved in another order
C4_Witness ==
    /\ TopLevelReturn
    /\ ncalls >= 2
    /\ FiveLetters(top)
    /\ Len(top) = 3
    /\ \E k \in DOMAIN memo : k # top /\ Range(k) = Range(top)

(***************************************************************************)
(* C5: best_guess is deterministic in the candidate SET: on any two        *)
(* orderings of a set of distinct 5-letter words it returns the same guess *)
(* and the same expected value.                                            *)
(***************************************************************************)
C5_SameGuessForEveryOrder ==
    (TopLevelReturn /\ FiveLetters(top)) =>
        \A k \in DOMAIN memo : Range(k) = Range(top) => memo[k] = ret

\* C5 as amended: the expected value is that of the set, whatever the order, and
\* the guess is the first word, in the order of the tuple, that attains it
C5_ValueOfTheSet ==
    (pc = "return" /\ FiveLetters(arg)) =>
        /\ ret.expected_after = RefValue(Range(arg))
        /\ \E i \in 1..Len(arg) :
               /\ ret.guess = arg[i]
               /\ RefExpected(Range(arg), arg[i]) = ret.expected_after
               /\ \A j \in 1..(i - 1) :
                      RefExpected(Range(arg), arg[j]) # ret.expected_after
        /\ \A k \in DOMAIN memo :
               Range(k) = Range(arg) => memo[k].expected_after = ret.expected_after

\* two orderings of one set are solved and their guesses differ
C5_Witness ==
    /\ TopLevelReturn
    /\ FiveLetters(top)
    /\ \E k \in DOMAIN memo :
           /\ Range(k) = Range(top)
           /\ memo[k].guess # ret.guess
           /\ memo[k].expected_after = ret.expected_after

(***************************************************************************)
(* C6: for distinct 5-letter words, every value expected_guesses_after     *)
(* returns, and so every expected_after best_guess returns or stores, is a *)
(* rational >= 0 whose reduced denominator divides the number of           *)
(* candidates: the weights of remaining_guesses_distribution sum to |C|    *)
(* and the weighted sum of its values is an integer.                       *)
(***************************************************************************)
C6_DenominatorDividesSize ==
    FiveLetters(top) =>
        /\ \A d \in 1..Len(stack) : \A j \in 1..Len(stack[d].values) :
               DenominatorDivides(stack[d].values[j].expected_after,
                                  Len(stack[d].possibilities))
        /\ \A k \in DOMAIN memo : DenominatorDivides(memo[k].expected_after, Len(k))
        /\ (pc = "return" => DenominatorDivides(ret.expected_after, Len(arg)))
        /\ (pc = "bucket" /\ Top.items = <<>>) =>
               /\ TotalWeight(Top.dist) = Len(Top.possibilities)
               /\ WeightedSum(Top.dist).den = 1

\* a guess of four candidates is scored 5/4
C6_Witness ==
    /\ FiveLetters(top)
    /\ \E d \in 1..Len(stack) : \E j \in 1..Len(stack[d].values) :
           /\ Len(stack[d].possibilities) = 4
           /\ stack[d].values[j].expected_after = Fraction(5, 4)

(***************************************************************************)
(* C7: on a non-empty tuple of distinct 5-letter words best_guess          *)
(* terminates: every recursive call is on a tuple strictly shorter than    *)
(* its caller's, which does not hold the caller's guess, so the nesting    *)
(* never exceeds the number of candidates, and the search never stops      *)
(* short of returning: the interpreter refuses no call (RecursionError)    *)
(* and no assertion fails, the only two ways a search ends unreturned.     *)
(***************************************************************************)
C7_CallsShrink ==
    FiveLetters(top) =>
        /\ pc \notin {"RecursionError", "AssertionError"}
        /\ pc \in {"guess", "bucket"} => stack # <<>>
        /\ Len(stack) <= Len(top)
        /\ \A d \in 1..(Len(stack) - 1) :
               /\ Len(stack[d + 1].possibilities) < Len(stack[d].possibilities)
               /\ stack[d].possibilities[stack[d].i] \notin Range(stack[d + 1].possibilities)
        /\ (pc = "best_guess" /\ stack # <<>>) =>
               /\ Len(arg) < Len(Top.possibilities)
               /\ Top.possibilities[Top.i] \notin Range(arg)

\* the nesting reaches the number of candidates
C7_Witness ==
    /\ FiveLetters(top)
    /\ Len(top) >= 3
    /\ Len(stack) = Len(top)

(***************************************************************************)
(* C8: in every state of a search both assertions of                       *)
(* expected_guesses_after hold: no bucket visited is empty, and the bucket *)
(* keyed ALL_GREEN holds one word, the guess itself: hint(a, g) is         *)
(* ALL_GREEN only for a = g.                                               *)
(***************************************************************************)
C8_AssertionsHold ==
    /\ pc # "AssertionError"
    /\ pc = "bucket" =>
           LET g == Top.possibilities[Top.i]
           IN  /\ \A n \in 1..Len(Top.items) :
                      /\ Len(Top.items[n][2]) > 0
                      /\ Top.items[n][1] = ALL_GREEN => Top.items[n][2] = <<g>>
               /\ \A a \in Range(Top.possibilities) : hint(a, g) = ALL_GREEN => a = g

\* a nested search is about to visit the ALL_GREEN bucket of several candidates
C8_Witness ==
    /\ pc = "bucket"
    /\ Len(stack) >= 2
    /\ Len(Top.possibilities) >= 2
    /\ Top.items # <<>>
    /\ Top.items[1][1] = ALL_GREEN

(***************************************************************************)
(* C9: the store is keyed canonically: two tuples of the same words in     *)
(* different orders are the same key, so the store holds at most one entry *)
(* per set of words and a call on a reordering of a solved set is a hit.   *)
(***************************************************************************)
C9_OneEntryPerSet ==
    /\ \A k1, k2 \in DOMAIN memo : Range(k1) = Range(k2) => k1 = k2
    /\ (pc = "return" /\ FiveLetters(arg)) =>
           \A k \in DOMAIN memo : Range(k) = Range(arg) => k = arg

\* C9 as amended: the key is the tuple itself, in the order given.  A call is a hit
\* exactly when that very tuple is a key; a key that is added is the tuple of the
\* call that adds it, a subsequence of the top-level tuple in the same order, and
\* the only key of its set of words among the subsequences of that tuple
C9_KeyedByTuple ==
    [][ /\ \A k \in (DOMAIN memo') \ (DOMAIN memo) :
               /\ k = Top.possibilities
               /\ IsSubsequence(k, top)
               /\ \A k2 \in DOMAIN memo' :
                      (IsSubsequence(k2, top) /\ Range(k2) = Range(k)) => k2 = k
        /\ (pc = "best_guess" /\ pc' = "return") =>
               /\ arg \in DOMAIN memo
               /\ ret' = memo[arg]
        /\ (pc = "best_guess" /\ pc' = "guess") => arg \notin DOMAIN memo
      ]_vars

\* the store holds two orderings of one set of words
C9_Witness ==
    \E k1, k2 \in DOMAIN memo : Range(k1) = Range(k2) /\ k1 # k2 /\ Len(k1) >= 2

(***************************************************************************)
(* C10: over any sequence of best_guess calls on one Run the store only    *)
(* grows: an entry is written when the computation of its key completes,   *)
(* the key not being in the store before, an entry once present is never   *)
(* removed or changed, and a call whose key is present returns the entry   *)
(* without entering expected_guesses_after.                                *)
(***************************************************************************)
C10_StoreOnlyGrows ==
    [][ /\ \A k \in DOMAIN memo : k \in DOMAIN memo' /\ memo'[k] = memo[k]
        /\ (pc = "guess" /\ pc' = "return") =>
               /\ Top.possibilities \notin DOMAIN memo
               /\ DOMAIN memo' = DOMAIN memo \cup {Top.possibilities}
               /\ memo'[Top.possibilities] = ret'
        /\ ~(pc = "guess" /\ pc' = "return") => memo' = memo
        /\ (pc = "best_guess" /\ arg \in DOMAIN memo) =>
               /\ pc' = "return"
               /\ ret' = memo[arg]
               /\ stack' = stack
               /\ memo' = memo
      ]_vars

\* a later top-level call finds its tuple of three words in the store
C10_Witness ==
    /\ pc = "best_guess"
    /\ stack = <<>>
    /\ ncalls >= 2
    /\ Len(arg) = 3
    /\ arg \in DOMAIN memo

====
